---- MODULE Spec2Model ----
(***************************************************************************)
(* The crawl orchestrator of rustyspider/firecrawl-core: the Redis job     *)
(* queue (queue/redis.rs), the crawl manager (crawl/mod.rs), the worker    *)
(* (worker/mod.rs) and the crawl endpoint of the API (firecrawl-api        *)
(* main.rs).  Every Redis command is one atomic step; the code between two *)
(* commands of one task is local and happens with the command before it.   *)
(***************************************************************************)
EXTENDS Integers, Sequences, FiniteSets, TLC

\* ------------------------------------------------------------------ bounds

\* Worker processes that share the Redis instance (main.rs starts one per
\* process).
NumWorkers == 2

\* Worker::new(.., max_concurrency): main.rs:77 passes 10; the model runs
\* each worker with a smaller semaphore.
MaxConcurrency == 1

\* CrawlConfig.limit as process_kickoff sets it (worker/mod.rs:122 writes
\* 1000); the model keeps the same code with a limit small enough for the
\* frontier to reach it.
DefaultLimit == 1

\* Job ids handed out by push (Uuid::now_v7 is fresh on every call).
MaxJobs == 7

\* How many faults one behaviour has: calls that return an error and job
\* records that disappear from the store.
MaxFaults == 1

\* CrawlRequest.limit of the crawl request the API receives.
RequestLimit == 1

\* How far the callers of ManagerSpec drive the counters and the results list.
MaxStored == 2

\* How many jobs the producer of QueueSpec pushes.
MaxPushed == 3

\* CrawlRequest.max_depth of a crawl request that sets it.
RequestDepth == 3

\* CrawlConfig.max_depth as process_kickoff sets it.
DefaultMaxDepth == 10

Workers == 1..NumWorkers
Slots == Workers \X (1..MaxConcurrency)
JobIds == 1..MaxJobs

\* ------------------------------------------------------------ the test site

Crawls == {"c1", "c2"}

\* The first site: its seed page links to two pages, one of which links
\* back, its sitemap is a urlset of the two pages, and it has no robots.txt.
Seed == "/"
PageA == "/a"
PageB == "/b"
RootSitemap == "/sitemap.xml"

\* A second site: its seed page has no links and its sitemap is an index of
\* two urlsets of one page each.
IndexSeed == "i/"
PageX == "i/x"
PageY == "i/y"
IndexSitemap == "i/sitemap.xml"
ChildX == "i/sitemap-x.xml"
ChildY == "i/sitemap-y.xml"

\* A third site: its seed page has no links and it serves no sitemap.
BareSeed == "b/"
BareSitemap == "b/sitemap.xml"

\* A fourth site: its seed page links to a page its robots.txt disallows and
\* to a second page, and its sitemap lists a page of another host.
GuardedSeed == "g/"
GuardedPrivate == "g/private"
GuardedOpen == "g/open"
GuardedSitemap == "g/sitemap.xml"
ExternalPage == "x/page"

\* A fifth site, crawled from a directory or from a page below the root;
\* the seed pages have no links.
DocsDir == "d/docs/"
DocsFile == "d/docs"
DocsRootSitemap == "d/sitemap.xml"
DocsDirSitemap == "d/docs/sitemap.xml"

\* A sixth site: its seed page has no links and its sitemap is an index
\* that lists itself.
LoopSeed == "l/"
LoopSitemap == "l/sitemap.xml"

URLs ==
    {Seed, PageA, PageB, IndexSeed, PageX, PageY, BareSeed,
     GuardedSeed, GuardedPrivate, GuardedOpen, ExternalPage, DocsDir, DocsFile, LoopSeed}

\* The links of a fetched page's HTML, in document order.
PageLinks(u) ==
    CASE u = Seed -> <<PageB, PageA>>
      [] u = PageA -> <<Seed>>
      [] u = GuardedSeed -> <<GuardedPrivate, GuardedOpen>>
      [] OTHER -> <<>>

\* extract_links(html): the links of the page when it is given the HTML,
\* none when it is given None.
extract_links(u, html) == IF html THEN PageLinks(u) ELSE <<>>

\* The host of a URL of the model.
HostOf(u) ==
    CASE u \in {Seed, PageA, PageB} -> ""
      [] u \in {IndexSeed, PageX, PageY} -> "i"
      [] u = BareSeed -> "b"
      [] u \in {GuardedSeed, GuardedPrivate, GuardedOpen} -> "g"
      [] u \in {DocsDir, DocsFile} -> "d"
      [] u = LoopSeed -> "l"
      [] OTHER -> "x"

\* The URLs the robots.txt of their site disallows.
RobotsDisallowed == {GuardedPrivate}

\* Whether the GET of /robots.txt on the host of a URL is answered 2xx with a
\* body: the fourth site has a robots.txt, the others answer 404.
RobotsServed(u) == HostOf(u) = "g"

\* Whether the link filter accepts a URL: same host as the base URL, not
\* matched by an excludes pattern, matched by an includes pattern when there
\* is one, and not disallowed by the robots.txt body it is given (robots_txt:
\* whether the body is the site's, the empty body disallows nothing).  A
\* pattern list is the set of the URLs its patterns match.
FilterAccepts(u, base_url, excludes, includes, robots_txt) ==
    /\ HostOf(u) = HostOf(base_url)
    /\ u \notin excludes
    /\ includes = {} \/ u \in includes
    /\ ~(robots_txt /\ u \in RobotsDisallowed)

\* filter_links(FilterLinksCall): the links the filter accepts, in order.
filter_links(links, base_url, excludes, includes, robots_txt) ==
    SelectSeq(links, LAMBDA u : FilterAccepts(u, base_url, excludes, includes, robots_txt))

\* The instructions process_sitemap returns for a sitemap document: a
\* sitemap index yields "recurse", a urlset yields "process".
SitemapInstructions(s) ==
    CASE s = RootSitemap -> << [action |-> "process", urls |-> <<PageA, PageB>>] >>
      [] s = IndexSitemap -> << [action |-> "recurse", urls |-> <<ChildX, ChildY>>] >>
      [] s = ChildX -> << [action |-> "process", urls |-> <<PageX>>] >>
      [] s = ChildY -> << [action |-> "process", urls |-> <<PageY>>] >>
      [] s = GuardedSitemap -> << [action |-> "process", urls |-> <<ExternalPage>>] >>
      [] s = LoopSitemap -> << [action |-> "recurse", urls |-> <<LoopSitemap>>] >>
      [] OTHER -> <<>>

\* Mutant: every sitemap fetch is taken to have succeeded.
SitemapServedAlways(s) == TRUE

\* Whether the GET of a sitemap URL is answered 2xx with a document that
\* parses.
SitemapServed(s) == s # BareSitemap

\* ------------------------------------------------------------------- data

NoCrawl == ""
NoPayload == [type |-> "none", url |-> "", crawl_id |-> NoCrawl, is_crawl_source |-> FALSE]

\* formats: options.formats of the job's ScrapeOptions, as a set.
ScrapeJobData(u, c, src, f) ==
    [type |-> "scrape", url |-> u, crawl_id |-> c, is_crawl_source |-> src, formats |-> f]

\* None of an Option<u32>.
Unset == 0 - 1

\* formats: scrape_options.formats as a set; includes, excludes: the sets of
\* the URLs the patterns match.
KickoffJobData(u, c, l, d, f, inc, exc) ==
    [type |-> "kickoff", url |-> u, crawl_id |-> c, is_crawl_source |-> FALSE,
     limit |-> l, max_depth |-> d, formats |-> f, includes |-> inc, excludes |-> exc]

KickoffSitemapJobData(s, c) ==
    [type |-> "kickoff_sitemap", url |-> s, crawl_id |-> c, is_crawl_source |-> FALSE]

NoJob == [payload |-> NoPayload, status |-> "none"]

\* Mutant: push creates the record Active.
NewJobActive(payload) == [payload |-> payload, status |-> "active"]

\* Job { id, payload, status: Pending, .. } as push builds it.
NewJob(payload) == [payload |-> payload, status |-> "pending"]

NoConfig == [base_url |-> "", limit |-> 0, max_depth |-> 0, formats |-> {}]

\* CrawlConfig as process_kickoff builds it: the limit and the depth are the
\* literals of the source, whatever the Kickoff payload carries; the scrape
\* options are the payload's, and there is no field for the patterns.
CrawlConfig(data) ==
    [base_url |-> data.url, limit |-> DefaultLimit, max_depth |-> DefaultMaxDepth,
     formats |-> data.formats]

\* A crawl request the API has received and not yet served: the seed, the
\* limit, the depth, the formats of the scrape options and the patterns of
\* the CrawlRequest.
ApiRequest(u, l, d, f, inc, exc) ==
    [pc |-> "new", id |-> 0, url |-> u, limit |-> l, max_depth |-> d,
     formats |-> f, includes |-> inc, excludes |-> exc]

\* No request is made for the crawl id.
NoRequest ==
    [pc |-> "none", id |-> 0, url |-> "", limit |-> Unset, max_depth |-> Unset,
     formats |-> {}, includes |-> {}, excludes |-> {}]

IdleTask ==
    [pc |-> "idle", id |-> 0, job |-> NoPayload, res |-> "none",
     instrs |-> <<>>, links |-> <<>>, limit |-> 0, formats |-> {},
     push |-> NoPayload, newid |-> 0, ret |-> "none", at |-> "none"]

\* What a CrawlManager call returned: Ok(None), Ok(Some(CrawlStatus)) of
\* get_status, Ok(n) of a counter operation, or Err.
NoResult == [kind |-> "pending", status |-> "", total |-> 0, completed |-> 0, active |-> 0]

\* A caller of the CrawlManager or of the queue, outside the job cycles, that
\* has not called yet.  clean: no other caller has written to the store since
\* the call began; push, newid: the payload and the id of a push or an ack;
\* table, out: the table and the output buffer of a render_table call.
IdleClient ==
    [pc |-> "idle", op |-> "none", crawl |-> NoCrawl, total |-> 0, active |-> 0,
     clean |-> TRUE, result |-> NoResult, push |-> NoPayload, newid |-> 0,
     table |-> <<>>, out |-> <<>>]

ToSet(s) == {s[i] : i \in 1..Len(s)}

Remove(s, x) == SelectSeq(s, LAMBDA y : y # x)

VARIABLES
    pending,      \* firecrawl:jobs:queue, head (left) first
    processing,   \* firecrawl:jobs:processing, head (left) first
    jobs,         \* firecrawl:jobs:data:{id}
    nextId,       \* the next fresh job id
    config,       \* firecrawl:crawl:{cid}:config
    visited,      \* firecrawl:crawl:{cid}:visited
    count,        \* firecrawl:crawl:{cid}:count
    active,       \* firecrawl:crawl:{cid}:active
    results,      \* firecrawl:crawl:{cid}:results
    robots,       \* firecrawl:crawl:{cid}:robots and the detached fetch
    api,          \* the crawl request of each crawl id
    loop,         \* Worker::run of each worker: where it is, the id it moved
    permits,      \* free permits of each worker's semaphore
    task,         \* the spawned job cycles
    faults,       \* faults so far
    enqueued,     \* history: <<id, payload, ids handed out so far>> of every id
                  \* appended to the pending list
    lockTrue,     \* history: lock_url calls that returned true, per (crawl, url)
    lockFalse,    \* history: (crawl, url) pairs for which lock_url returned false
    incs,         \* history: increment_active_jobs executions per crawl
    trace,        \* history: the steps of the job cycle of each job id
    delivered,    \* history: the workers pop returned each job id to
    leaked,       \* history: increments of active whose push never reached the
                  \* pending list, per crawl
    client        \* a caller of the CrawlManager outside the workers

kv == <<pending, processing, jobs, nextId, config, visited, count, active, results, robots>>
procs == <<api, loop, permits, task>>
past == <<enqueued, lockTrue, lockFalse, incs, trace, delivered, leaked>>
hist == <<faults, past>>
vars == <<kv, procs, client, hist>>

\* The state after construction, with the crawl requests the API is given
\* and the caller outside the job cycles.
InitState(requests, caller) ==
    /\ pending = <<>>
    /\ processing = <<>>
    /\ jobs = [i \in JobIds |-> NoJob]
    /\ nextId = 1
    /\ config = [c \in Crawls |-> NoConfig]
    /\ visited = [c \in Crawls |-> {}]
    /\ count = [c \in Crawls |-> 0]
    /\ active = [c \in Crawls |-> 0]
    /\ results = [c \in Crawls |-> <<>>]
    /\ robots = [c \in Crawls |-> "none"]
    /\ api = requests
    /\ loop = [w \in Workers |-> [pc |-> "pop", id |-> 0]]
    /\ permits = [w \in Workers |-> MaxConcurrency]
    /\ task = [s \in Slots |-> IdleTask]
    /\ faults = 0
    /\ enqueued = {}
    /\ lockTrue = [c \in Crawls |-> [u \in URLs |-> 0]]
    /\ lockFalse = {}
    /\ incs = [c \in Crawls |-> 0]
    /\ trace = [i \in JobIds |-> <<>>]
    /\ delivered = [i \in JobIds |-> <<>>]
    /\ leaked = [c \in Crawls |-> 0]
    /\ client = caller

\* The state after construction, with the crawl requests the API is given.
InitWith(requests) == InitState(requests, IdleClient)

\* One crawl request, for the first site, that asks for the html format.
Init ==
    InitWith([c \in Crawls |->
        IF c = "c1" THEN ApiRequest(Seed, RequestLimit, Unset, {"html"}, {}, {})
        ELSE NoRequest])

\* One more fault happens.
Fault ==
    /\ faults < MaxFaults
    /\ faults' = faults + 1

\* --------------------------------------------------------- Redis commands

\* RPUSH list x
Rpush(list, x) == Append(list, x)

\* LREM list 0 x: every occurrence of x goes
Lrem(list, x) == Remove(list, x)

\* SADD set x: the number of members added
Sadd(set, x) == IF x \in set THEN 0 ELSE 1

\* BRPOPLPUSH src dst: the element moved is the right tail of src ...
BrpoplpushMoved(src) == src[Len(src)]

\* Mutant: the id is read from the tail of src and left there.
BrpoplpushSrcKeeps(src) == src

\* ... which leaves src ...
BrpoplpushSrc(src) == SubSeq(src, 1, Len(src) - 1)

\* Mutant: the id is popped and never put on dst.
BrpoplpushDstDrops(dst, x) == dst

\* ... and becomes the left head of dst.
BrpoplpushDst(dst, x) == <<x>> \o dst

\* ------------------------------------------------------------ CrawlManager

\* Mutant: the visited set is one key for all crawls.
LockUrlOneKey(c, u) ==
    /\ visited' = [d \in Crawls |-> visited[d] \cup {u}]
    /\ lockTrue' = IF Sadd(visited[c], u) = 1 THEN [lockTrue EXCEPT ![c][u] = @ + 1] ELSE lockTrue
    /\ lockFalse' = IF Sadd(visited[c], u) = 1 THEN lockFalse ELSE lockFalse \cup {<<c, u>>}

\* Mutant: lock_url answers true whether or not the url was added.
lock_url_always(c, u) == Sadd(visited[c], u) >= 0

\* lock_url: SADD on the visited set, true iff the url was added.
lock_url(c, u) == Sadd(visited[c], u) = 1

\* What one lock_url call does to the state: the SADD and its return value.
LockUrl(c, u) ==
    /\ visited' = [visited EXCEPT ![c] = @ \cup {u}]
    /\ lockTrue' = IF lock_url(c, u) THEN [lockTrue EXCEPT ![c][u] = @ + 1] ELSE lockTrue
    /\ lockFalse' = IF lock_url(c, u) THEN lockFalse ELSE lockFalse \cup {<<c, u>>}

\* Mutant: the INCR of the active counter is left out.
increment_active_jobs_skipped(c) == UNCHANGED <<active, incs>>

\* increment_active_jobs: INCR of the active counter.
increment_active_jobs(c) ==
    /\ active' = [active EXCEPT ![c] = @ + 1]
    /\ incs' = [incs EXCEPT ![c] = @ + 1]

\* Mutant: the DECR of the active counter is left out.
decrement_active_jobs_skipped(c) == UNCHANGED active

\* decrement_active_jobs: DECR of the active counter.
decrement_active_jobs(c) == active' = [active EXCEPT ![c] = @ - 1]

\* A reply of Redis converted to u32 (`let count: u32 = ..`, `Option<u32>`):
\* a negative integer does not convert and the call returns Err.
IsU32(v) == v >= 0

\* increment_count: INCR of the count counter.
increment_count(c) == count' = [count EXCEPT ![c] = @ + 1]

\* get_count: GET of the count counter, 0 when unset.
get_count(c) == count[c]

\* add_result: RPUSH on the results list.
add_result(c, r) == results' = [results EXCEPT ![c] = Rpush(@, r)]

\* get_status returned Ok(None).
StatusNone == [NoResult EXCEPT !.kind = "none"]

\* A CrawlManager call returned Err.
CallError == [NoResult EXCEPT !.kind = "error"]

\* Mutant: completed is taken from the count, not from the results list.
CrawlStatusCompletedIsTotal(total, act, completed) ==
    [kind |-> "status", status |-> IF act = 0 THEN "completed" ELSE "scraping",
     total |-> total, completed |-> total, active |-> act]

\* The CrawlStatus get_status builds from what it has read.
CrawlStatus(total, act, completed) ==
    [kind |-> "status", status |-> IF act = 0 THEN "completed" ELSE "scraping",
     total |-> total, completed |-> completed, active |-> act]

\* get_status when nothing is written to the store between its reads.
get_status(c) ==
    IF config[c] = NoConfig THEN StatusNone
    ELSE IF ~IsU32(count[c]) \/ ~IsU32(active[c]) THEN CallError
    ELSE CrawlStatus(count[c], active[c], Len(results[c]))

\* ------------------------------------------------------------------ Queue

\* Mutant: push takes a fresh id and does not write the record.
QueueSetRecordSkipped(payload) ==
    /\ nextId <= MaxJobs
    /\ jobs' = jobs
    /\ nextId' = nextId + 1

\* push, first write: SET of the job record under a fresh id.
QueueSetRecord(payload) ==
    /\ nextId <= MaxJobs
    /\ jobs' = [jobs EXCEPT ![nextId] = NewJob(payload)]
    /\ nextId' = nextId + 1

\* push, second write: RPUSH of the id on the pending list.  The history
\* keeps, with the id, the id counter of that moment: the push calls whose
\* id is at or above it had not started when this one completed.
QueueRpush(id, payload) ==
    /\ pending' = Rpush(pending, id)
    /\ enqueued' = enqueued \cup {<<id, payload, nextId>>}

\* Mutant: ack takes the head of the processing list, whatever the id.
ack_head(id) == processing' = IF processing = <<>> THEN <<>> ELSE Tail(processing)

\* Mutant: ack empties the processing list.
ack_all(id) == processing' = <<>>

\* Mutant: ack removes nothing.
ack_nothing(id) == processing' = processing

\* ack: LREM of the id from the processing list.
ack(id) == processing' = Lrem(processing, id)

\* Mutant: update_status writes nothing.
update_status_skipped(id, status) == UNCHANGED jobs

\* update_status: GET, set the status, SET; nothing when the record is gone.
update_status(id, status) ==
    jobs' = IF jobs[id] = NoJob THEN jobs ELSE [jobs EXCEPT ![id].status = status]

\* ------------------------------------------------- the API's crawl endpoint

\* The Kickoff payload the endpoint builds from the request.
ApiPayload(c) ==
    KickoffJobData(api[c].url, c, api[c].limit, api[c].max_depth,
                   api[c].formats, api[c].includes, api[c].excludes)

\* Mutant: the endpoint pushes the Kickoff job without the increment.
ApiWithoutIncrement(c) ==
    /\ api[c].pc = "new"
    /\ api' = [api EXCEPT ![c].pc = "set"]
    /\ UNCHANGED <<kv, loop, permits, task, client, hist>>

ApiIncrement(c) ==
    /\ api[c].pc = "new"
    /\ increment_active_jobs(c)
    /\ api' = [api EXCEPT ![c].pc = "set"]
    /\ UNCHANGED <<pending, processing, jobs, nextId, config, visited, count, results, robots>>
    /\ UNCHANGED <<loop, permits, task, faults, enqueued, lockTrue, lockFalse, trace, delivered, leaked, client>>

ApiPushSet(c) ==
    /\ api[c].pc = "set"
    /\ QueueSetRecord(ApiPayload(c))
    /\ api' = [api EXCEPT ![c].pc = "rpush", ![c].id = nextId]
    /\ UNCHANGED <<pending, processing, config, visited, count, active, results, robots>>
    /\ UNCHANGED <<loop, permits, task, hist, client>>

ApiPushRpush(c) ==
    /\ api[c].pc = "rpush"
    /\ QueueRpush(api[c].id, ApiPayload(c))
    /\ api' = [api EXCEPT ![c].pc = "done"]
    /\ UNCHANGED <<processing, jobs, nextId, config, visited, count, active, results, robots>>
    /\ UNCHANGED <<loop, permits, task, faults, lockTrue, lockFalse, incs, trace, delivered, leaked, client>>

\* increment_active_jobs or queue.push returned an error: the request ends.
ApiError(c) ==
    /\ api[c].pc \in {"new", "set", "rpush"}
    /\ api' = [api EXCEPT ![c].pc = "failed"]
    /\ leaked' = IF api[c].pc = "new" THEN leaked ELSE [leaked EXCEPT ![c] = @ + 1]
    /\ Fault
    /\ UNCHANGED <<kv, loop, permits, task, client, enqueued, lockTrue, lockFalse, incs, trace, delivered>>

\* ------------------------------------------------------------- Worker::run

FreeSlot(w) == CHOOSE k \in 1..MaxConcurrency :
    /\ task[<<w, k>>].pc = "idle"
    /\ \A j \in 1..(k - 1) : task[<<w, j>>].pc # "idle"

StartPc(payload) ==
    CASE payload.type = "kickoff" -> "k_save"
      [] payload.type = "kickoff_sitemap" -> "s_config"
      [] OTHER -> "sc_scrape"

\* One iteration of the loop up to the answer of BRPOPLPUSH: a permit is
\* acquired (the semaphore is local to the worker, its acquisition happens
\* with the Redis command that follows it), and BRPOPLPUSH moved an id.
PopMove(w) ==
    /\ loop[w].pc = "pop"
    /\ permits[w] > 0
    /\ pending # <<>>
    /\ permits' = [permits EXCEPT ![w] = @ - 1]
    /\ pending' = BrpoplpushSrc(pending)
    /\ processing' = BrpoplpushDst(processing, BrpoplpushMoved(pending))
    /\ loop' = [loop EXCEPT ![w] = [pc |-> "load", id |-> BrpoplpushMoved(pending)]]
    /\ UNCHANGED <<jobs, nextId, config, visited, count, active, results, robots>>
    /\ UNCHANGED <<api, task, hist, client>>

\* One iteration in which BRPOPLPUSH timed out on an empty list: a permit is
\* acquired, pop returns Ok(None) and the permit is dropped.
PopEmpty(w) ==
    /\ loop[w].pc = "pop"
    /\ permits[w] > 0
    /\ pending = <<>>
    /\ UNCHANGED vars

\* One iteration in which BRPOPLPUSH returned an error: a permit is acquired,
\* pop returns Err and the permit is dropped.
PopError(w) ==
    /\ loop[w].pc = "pop"
    /\ permits[w] > 0
    /\ Fault
    /\ UNCHANGED <<kv, procs, past, client>>

\* pop: the record is there; it is set Active and the job cycle is spawned.
PopLoad(w) ==
    /\ loop[w].pc = "load"
    /\ jobs[loop[w].id] # NoJob
    /\ jobs' = [jobs EXCEPT ![loop[w].id].status = "active"]
    /\ task' = [task EXCEPT ![<<w, FreeSlot(w)>>] =
                  [IdleTask EXCEPT !.pc = StartPc(jobs[loop[w].id].payload),
                                   !.id = loop[w].id,
                                   !.job = jobs[loop[w].id].payload]]
    /\ delivered' = [delivered EXCEPT ![loop[w].id] = Append(@, w)]
    /\ loop' = [loop EXCEPT ![w] = [pc |-> "pop", id |-> 0]]
    /\ UNCHANGED <<pending, processing, nextId, config, visited, count, active, results, robots>>
    /\ UNCHANGED <<api, permits, faults, enqueued, lockTrue, lockFalse, incs, trace, leaked, client>>

\* Mutant: the Ok(None) of the clean-up does not give the permit back.
PopMissingKeepsPermit(w) ==
    /\ loop[w].pc = "load"
    /\ jobs[loop[w].id] = NoJob
    /\ processing' = Lrem(processing, loop[w].id)
    /\ loop' = [loop EXCEPT ![w] = [pc |-> "pop", id |-> 0]]
    /\ UNCHANGED <<pending, jobs, nextId, config, visited, count, active, results, robots>>
    /\ UNCHANGED <<api, permits, task, hist, client>>

\* Mutant: pop returns Ok(None) and leaves the id in the processing list.
PopMissingKeepsId(w) ==
    /\ loop[w].pc = "load"
    /\ jobs[loop[w].id] = NoJob
    /\ permits' = [permits EXCEPT ![w] = @ + 1]
    /\ loop' = [loop EXCEPT ![w] = [pc |-> "pop", id |-> 0]]
    /\ UNCHANGED <<kv, api, task, hist, client>>

\* pop: the record is missing; the id is removed again, Ok(None).
PopMissing(w) ==
    /\ loop[w].pc = "load"
    /\ jobs[loop[w].id] = NoJob
    /\ processing' = Lrem(processing, loop[w].id)
    /\ permits' = [permits EXCEPT ![w] = @ + 1]
    /\ loop' = [loop EXCEPT ![w] = [pc |-> "pop", id |-> 0]]
    /\ UNCHANGED <<pending, jobs, nextId, config, visited, count, active, results, robots>>
    /\ UNCHANGED <<api, task, hist, client>>

\* pop returned Err after the move (its GET or SET failed, or the record did
\* not decode): the permit is dropped, the id stays in the processing list.
PopLoadError(w) ==
    /\ loop[w].pc = "load"
    /\ permits' = [permits EXCEPT ![w] = @ + 1]
    /\ loop' = [loop EXCEPT ![w] = [pc |-> "pop", id |-> 0]]
    /\ Fault
    /\ UNCHANGED <<kv, api, task, past, client>>

\* The record of a queued job disappears from the store (the case the
\* clean-up of pop is written for).
LoseRecord(i) ==
    /\ Fault
    /\ i \in ToSet(pending)
    /\ jobs[i] # NoJob
    /\ jobs' = [jobs EXCEPT ![i] = NoJob]
    /\ UNCHANGED <<pending, processing, nextId, config, visited, count, active, results, robots>>
    /\ UNCHANGED <<procs, enqueued, lockTrue, lockFalse, incs, trace, delivered, leaked, client>>

\* The task is inside push_job, past the increment_active_jobs of a
\* crawl-bound payload and before the RPUSH of queue.push.
PushLeaks(t) == t.pc \in {"pj_set", "pj_rpush"} /\ t.push.crawl_id # NoCrawl

\* The worker process dies while it holds a job: its loop and its job cycles
\* stop where they are and nothing of the store changes.  (A process that
\* dies holding no job leaves the store as a process that is never scheduled
\* again does.)
Crash(w) ==
    /\ loop[w].pc # "crashed"
    /\ loop[w].pc = "load" \/ \E s \in Slots : s[1] = w /\ task[s].pc # "idle"
    /\ loop' = [loop EXCEPT ![w].pc = "crashed"]
    /\ task' = [s \in Slots |->
                  IF s[1] = w /\ task[s].pc # "idle"
                  THEN [task[s] EXCEPT !.pc = "crashed", !.at = task[s].pc]
                  ELSE task[s]]
    /\ leaked' = [c \in Crawls |-> leaked[c] +
                    Cardinality({s \in Slots : /\ s[1] = w
                                               /\ PushLeaks(task[s])
                                               /\ task[s].push.crawl_id = c})]
    /\ Fault
    /\ UNCHANGED <<kv, api, permits, client, enqueued, lockTrue, lockFalse, incs, trace, delivered>>

\* ------------------------------------------------ the job cycle of a task

SetTask(s, t) == task' = [task EXCEPT ![s] = t]

Crawl(s) == task[s].job.crawl_id

\* process_job returned: what is left is update_status, ack and decrement.
Return(t, r) == [IdleTask EXCEPT !.pc = "status", !.id = t.id, !.job = t.job, !.res = r]

\* The `for instruction in processing_result.instructions` loop of
\* process_kickoff_sitemap reaches its next instruction; handle_crawl_discovery
\* has none and returns Ok.
RECURSIVE NextInstr(_)
NextInstr(t) ==
    IF t.instrs = <<>> THEN Return(t, "ok")
    ELSE LET i == Head(t.instrs)
             t2 == [t EXCEPT !.instrs = Tail(t.instrs), !.links = i.urls]
         IN  IF i.urls = <<>> \/ i.action \notin {"process", "recurse"}
             THEN NextInstr([t2 EXCEPT !.links = <<>>])
             ELSE IF i.action = "process"
             THEN [t2 EXCEPT !.pc = "l_lock"]
             ELSE [t2 EXCEPT !.pc = "pj_inc", !.ret = "r_push",
                             !.links = Tail(i.urls),
                             !.push = KickoffSitemapJobData(Head(i.urls), t.job.crawl_id)]

\* One iteration of a `for link in ..` loop is over.
LoopNext(t) ==
    IF t.links = <<>> THEN NextInstr(t) ELSE [t EXCEPT !.pc = "l_lock"]

\* One iteration of the `for sitemap_url in instruction.urls` loop is over.
RecurseNext(t) ==
    IF t.links = <<>> THEN NextInstr(t)
    ELSE [t EXCEPT !.pc = "pj_inc", !.ret = "r_push", !.links = Tail(t.links),
                   !.push = KickoffSitemapJobData(Head(t.links), t.job.crawl_id)]

\* data.url.ends_with("/") for the seeds of the model.
EndsWithSlash(u) == u # DocsFile

\* Url::parse(u) followed by set_path(p): the scheme and the host of u with
\* the path replaced.
SetPath(u, p) == HostOf(u) \o p

\* The sitemap the Kickoff handler derives from the seed: the seed followed
\* by sitemap.xml when the seed ends with "/", otherwise the seed with its
\* path replaced by /sitemap.xml.
SitemapUrl(u) ==
    IF EndsWithSlash(u) THEN u \o "sitemap.xml" ELSE SetPath(u, "/sitemap.xml")

\* process_kickoff after its seed step: push_job(KickoffSitemap).
KickoffPushSitemap(t) ==
    [t EXCEPT !.pc = "pj_inc", !.ret = "k_robots",
              !.push = KickoffSitemapJobData(SitemapUrl(t.job.url), t.job.crawl_id)]

\* push_job returned Ok to its caller.
Resume(t) ==
    LET t2 == [t EXCEPT !.push = NoPayload, !.newid = 0, !.ret = "none"]
    IN  CASE t.ret = "k_sitemap" -> KickoffPushSitemap(t2)
          [] t.ret = "k_robots" -> [t2 EXCEPT !.pc = "k_robots"]
          [] t.ret = "l_lock" -> LoopNext(t2)
          [] OTHER -> RecurseNext(t2)

\* process_kickoff 1: save_config.
KickoffSaveConfig(s) ==
    /\ task[s].pc = "k_save"
    /\ config' = [config EXCEPT ![Crawl(s)] = CrawlConfig(task[s].job)]
    /\ SetTask(s, [task[s] EXCEPT !.pc = "k_lock"])
    /\ UNCHANGED <<pending, processing, jobs, nextId, visited, count, active, results, robots>>
    /\ UNCHANGED <<api, loop, permits, hist, client>>

\* process_kickoff 2: lock_url on the seed; the seed Scrape is pushed if it
\* was added (no increment_count), then the sitemap job.
KickoffLockSeed(s) ==
    /\ task[s].pc = "k_lock"
    /\ LockUrl(Crawl(s), task[s].job.url)
    /\ SetTask(s, IF lock_url(Crawl(s), task[s].job.url)
                  THEN [task[s] EXCEPT !.pc = "pj_inc", !.ret = "k_sitemap",
                          !.push = ScrapeJobData(task[s].job.url, Crawl(s), TRUE,
                                                 task[s].job.formats)]
                  ELSE KickoffPushSitemap(task[s]))
    /\ UNCHANGED <<pending, processing, jobs, nextId, config, count, active, results, robots>>
    /\ UNCHANGED <<api, loop, permits, faults, enqueued, incs, trace, delivered, leaked, client>>

\* process_kickoff 4: the robots.txt fetch is spawned detached; Ok(()).
KickoffSpawnRobots(s) ==
    /\ task[s].pc = "k_robots"
    /\ robots' = [robots EXCEPT ![Crawl(s)] = "fetching"]
    /\ SetTask(s, Return(task[s], "ok"))
    /\ UNCHANGED <<pending, processing, jobs, nextId, config, visited, count, active, results>>
    /\ UNCHANGED <<api, loop, permits, hist, client>>

\* The detached task: a 2xx answer is stored with set_robots_txt (any other
\* outcome stores nothing, which is the state the task starts in).
RobotsStored(c) ==
    /\ robots[c] = "fetching"
    /\ RobotsServed(config[c].base_url)
    /\ robots' = [robots EXCEPT ![c] = "set"]
    /\ UNCHANGED <<pending, processing, jobs, nextId, config, visited, count, active, results>>
    /\ UNCHANGED <<procs, hist, client>>

\* Mutant: a missing config is replaced by a default one and the job goes on.
SitemapGetConfigDefault(s) ==
    /\ task[s].pc = "s_config"
    /\ config' = IF config[Crawl(s)] = NoConfig
                 THEN [config EXCEPT ![Crawl(s)] =
                         CrawlConfig(KickoffJobData(task[s].job.url, Crawl(s), Unset, Unset,
                                                    {}, {}, {}))]
                 ELSE config
    /\ SetTask(s, [task[s] EXCEPT !.pc = "s_fetch", !.limit = DefaultLimit])
    /\ UNCHANGED <<pending, processing, jobs, nextId, visited, count, active, results, robots>>
    /\ UNCHANGED <<api, loop, permits, hist, client>>

\* process_kickoff_sitemap: get_config, an error when there is none.
SitemapGetConfig(s) ==
    /\ task[s].pc = "s_config"
    /\ SetTask(s, IF config[Crawl(s)] = NoConfig
                  THEN Return(task[s], "err")
                  ELSE [task[s] EXCEPT !.pc = "s_fetch", !.limit = config[Crawl(s)].limit,
                                       !.formats = config[Crawl(s)].formats])
    /\ UNCHANGED <<kv, api, loop, permits, hist, client>>

\* process_kickoff_sitemap 1-2: the sitemap is fetched and parsed.
SitemapFetch(s) ==
    /\ task[s].pc = "s_fetch"
    /\ SetTask(s, IF SitemapServed(task[s].job.url)
                  THEN NextInstr([task[s] EXCEPT !.instrs = SitemapInstructions(task[s].job.url)])
                  ELSE Return(task[s], "err"))
    /\ UNCHANGED <<kv, api, loop, permits, hist, client>>

\* `if lock_url(crawl_id, &link)` of both link loops.
LinkLock(s) ==
    /\ task[s].pc = "l_lock"
    /\ LockUrl(Crawl(s), Head(task[s].links))
    /\ SetTask(s, IF lock_url(Crawl(s), Head(task[s].links))
                  THEN [task[s] EXCEPT !.pc = "l_get"]
                  ELSE LoopNext([task[s] EXCEPT !.links = Tail(task[s].links)]))
    /\ UNCHANGED <<pending, processing, jobs, nextId, config, count, active, results, robots>>
    /\ UNCHANGED <<api, loop, permits, faults, enqueued, incs, trace, delivered, leaked, client>>

\* `current_count = get_count(..); if current_count < config.limit`
LinkGetCount(s) ==
    /\ task[s].pc = "l_get"
    /\ SetTask(s, IF get_count(Crawl(s)) < task[s].limit
                  THEN [task[s] EXCEPT !.pc = "l_inc"]
                  ELSE LoopNext([task[s] EXCEPT !.links = Tail(task[s].links)]))
    /\ UNCHANGED <<kv, api, loop, permits, hist, client>>

\* increment_count, then push_job(Scrape) is entered.
LinkIncrementCount(s) ==
    /\ task[s].pc = "l_inc"
    /\ increment_count(Crawl(s))
    /\ SetTask(s, [task[s] EXCEPT !.pc = "pj_inc", !.ret = "l_lock",
                     !.links = Tail(task[s].links),
                     !.push = ScrapeJobData(Head(task[s].links), Crawl(s), FALSE,
                                            task[s].formats)])
    /\ UNCHANGED <<pending, processing, jobs, nextId, config, visited, active, results, robots>>
    /\ UNCHANGED <<api, loop, permits, hist, client>>

\* Mutant: push_job goes to queue.push without the increment.
PushJobWithoutIncrement(s) ==
    /\ task[s].pc = "pj_inc"
    /\ SetTask(s, [task[s] EXCEPT !.pc = "pj_set"])
    /\ UNCHANGED <<kv, api, loop, permits, hist, client>>

\* push_job: increment_active_jobs when the payload has a crawl id.
PushJobIncrement(s) ==
    /\ task[s].pc = "pj_inc"
    /\ IF task[s].push.crawl_id # NoCrawl
       THEN increment_active_jobs(task[s].push.crawl_id)
       ELSE UNCHANGED <<active, incs>>
    /\ SetTask(s, [task[s] EXCEPT !.pc = "pj_set"])
    /\ UNCHANGED <<pending, processing, jobs, nextId, config, visited, count, results, robots>>
    /\ UNCHANGED <<api, loop, permits, faults, enqueued, lockTrue, lockFalse, trace, delivered, leaked, client>>

\* push_job: queue.push writes the record.
PushJobSet(s) ==
    /\ task[s].pc = "pj_set"
    /\ QueueSetRecord(task[s].push)
    /\ SetTask(s, [task[s] EXCEPT !.pc = "pj_rpush", !.newid = nextId])
    /\ UNCHANGED <<pending, processing, config, visited, count, active, results, robots>>
    /\ UNCHANGED <<api, loop, permits, hist, client>>

\* push_job: queue.push appends the id; the caller goes on.
PushJobRpush(s) ==
    /\ task[s].pc = "pj_rpush"
    /\ QueueRpush(task[s].newid, task[s].push)
    /\ SetTask(s, Resume(task[s]))
    /\ UNCHANGED <<processing, jobs, nextId, config, visited, count, active, results, robots>>
    /\ UNCHANGED <<api, loop, permits, faults, lockTrue, lockFalse, incs, trace, delivered, leaked, client>>

\* process_scrape: the scrape service returned a result.
ScrapeFetch(s) ==
    /\ task[s].pc = "sc_scrape"
    /\ SetTask(s, IF Crawl(s) # NoCrawl
                  THEN [task[s] EXCEPT !.pc = "sc_add"]
                  ELSE Return(task[s], "ok"))
    /\ UNCHANGED <<kv, api, loop, permits, hist, client>>

\* process_scrape: add_result.
ScrapeAddResult(s) ==
    /\ task[s].pc = "sc_add"
    /\ add_result(Crawl(s), task[s].job.url)
    /\ SetTask(s, [task[s] EXCEPT !.pc = "sc_disc"])
    /\ UNCHANGED <<pending, processing, jobs, nextId, config, visited, count, active, robots>>
    /\ UNCHANGED <<api, loop, permits, hist, client>>

\* What handle_crawl_discovery hands to extract_links: result.html or else
\* result.raw_html, each of which the scrape service fills only when its
\* format is requested.  TRUE: the HTML of the page; FALSE: None.
DiscoveryHtml(formats) == "html" \in formats \/ "rawHtml" \in formats

\* The links handle_crawl_discovery enqueues from: extract_links of the
\* result's HTML, filtered with the config's base URL, empty pattern lists
\* and the robots.txt body stored at this moment (the empty body when none
\* is stored yet).
DiscoveredLinks(s) ==
    filter_links(extract_links(task[s].job.url, DiscoveryHtml(task[s].job.formats)),
                 config[Crawl(s)].base_url, {}, {}, robots[Crawl(s)] = "set")

\* handle_crawl_discovery: get_config, extract_links, get_robots_txt,
\* filter_links.
ScrapeDiscover(s) ==
    /\ task[s].pc = "sc_disc"
    /\ SetTask(s, IF config[Crawl(s)] = NoConfig
                  THEN Return(task[s], "err")
                  ELSE LoopNext([task[s] EXCEPT !.links = DiscoveredLinks(s),
                                               !.limit = config[Crawl(s)].limit,
                                               !.formats = config[Crawl(s)].formats]))
    /\ UNCHANGED <<kv, api, loop, permits, hist, client>>

HandlerPcs ==
    {"k_save", "k_lock", "s_config", "s_fetch", "l_lock", "l_get", "l_inc",
     "pj_inc", "pj_set", "pj_rpush", "sc_scrape", "sc_add", "sc_disc"}

\* Mutant: a failed queue.push is compensated with a DECR of active.
HandlerErrorCompensates(s) ==
    /\ task[s].pc \in HandlerPcs
    /\ SetTask(s, [Return(task[s], "err") EXCEPT !.at = task[s].pc])
    /\ leaked' = IF PushLeaks(task[s])
                 THEN [leaked EXCEPT ![task[s].push.crawl_id] = @ + 1] ELSE leaked
    /\ active' = IF PushLeaks(task[s])
                 THEN [active EXCEPT ![task[s].push.crawl_id] = @ - 1] ELSE active
    /\ Fault
    /\ UNCHANGED <<pending, processing, jobs, nextId, config, visited, count, results, robots>>
    /\ UNCHANGED <<api, loop, permits, client, enqueued, lockTrue, lockFalse, incs, trace, delivered>>

\* The fallible call the handler is at returns an error and `?` hands it to
\* the job cycle.  Inside push_job after the increment, the increment stays.
\* The task keeps, for the rest of the cycle, the call that failed.
HandlerError(s) ==
    /\ task[s].pc \in HandlerPcs
    /\ SetTask(s, [Return(task[s], "err") EXCEPT !.at = task[s].pc])
    /\ leaked' = IF PushLeaks(task[s])
                 THEN [leaked EXCEPT ![task[s].push.crawl_id] = @ + 1] ELSE leaked
    /\ Fault
    /\ UNCHANGED <<kv, api, loop, permits, client, enqueued, lockTrue, lockFalse, incs, trace, delivered>>

\* Mutant: the job is marked Completed whatever the handler returned.
StatusOfCompleted(res) == "completed"

\* JobStatus::Completed when process_job returned Ok, Failed(e) otherwise.
StatusOf(res) == IF res = "ok" THEN "completed" ELSE "failed"

\* handle_job_full_cycle: update_status(Completed | Failed(e)).
UpdateStatus(s) ==
    /\ task[s].pc = "status"
    /\ update_status(task[s].id, StatusOf(task[s].res))
    /\ trace' = [trace EXCEPT ![task[s].id] = Append(@, StatusOf(task[s].res))]
    /\ SetTask(s, [task[s] EXCEPT !.pc = "ack"])
    /\ UNCHANGED <<pending, processing, nextId, config, visited, count, active, results, robots>>
    /\ UNCHANGED <<api, loop, permits, faults, enqueued, lockTrue, lockFalse, incs, delivered, leaked, client>>

\* update_status returned an error, which is logged.
UpdateStatusError(s) ==
    /\ task[s].pc = "status"
    /\ trace' = [trace EXCEPT ![task[s].id] = Append(@, "status_err")]
    /\ SetTask(s, [task[s] EXCEPT !.pc = "ack"])
    /\ Fault
    /\ UNCHANGED <<kv, api, loop, permits, enqueued, lockTrue, lockFalse, incs, delivered, leaked, client>>

\* Mutant: the cycle ends after the ack attempt, without the decrement.
AfterAckReturns(s) ==
    /\ SetTask(s, IdleTask)
    /\ permits' = [permits EXCEPT ![s[1]] = @ + 1]

\* Where the cycle goes after the ack attempt: the decrement when the job
\* has a crawl id, else its end (the permit is dropped with the task).
AfterAck(s) ==
    IF Crawl(s) # NoCrawl
    THEN /\ SetTask(s, [task[s] EXCEPT !.pc = "decr"])
         /\ UNCHANGED permits
    ELSE /\ SetTask(s, IdleTask)
         /\ permits' = [permits EXCEPT ![s[1]] = @ + 1]

\* handle_job_full_cycle: ack.
Ack(s) ==
    /\ task[s].pc = "ack"
    /\ ack(task[s].id)
    /\ trace' = [trace EXCEPT ![task[s].id] = Append(@, "ack")]
    /\ AfterAck(s)
    /\ UNCHANGED <<pending, jobs, nextId, config, visited, count, active, results, robots>>
    /\ UNCHANGED <<api, loop, faults, enqueued, lockTrue, lockFalse, incs, delivered, leaked, client>>

\* ack returned an error, which is logged.
AckError(s) ==
    /\ task[s].pc = "ack"
    /\ trace' = [trace EXCEPT ![task[s].id] = Append(@, "ack_err")]
    /\ AfterAck(s)
    /\ Fault
    /\ UNCHANGED <<kv, api, loop, enqueued, lockTrue, lockFalse, incs, delivered, leaked, client>>

\* handle_job_full_cycle: decrement_active_jobs (an Err is logged); the task
\* ends.
Decrement(s) ==
    /\ task[s].pc = "decr"
    /\ decrement_active_jobs(Crawl(s))
    /\ trace' = [trace EXCEPT ![task[s].id] =
                   Append(@, IF IsU32(active[Crawl(s)] - 1) THEN "decr" ELSE "decr_err")]
    /\ SetTask(s, IdleTask)
    /\ permits' = [permits EXCEPT ![s[1]] = @ + 1]
    /\ UNCHANGED <<pending, processing, jobs, nextId, config, visited, count, results, robots>>
    /\ UNCHANGED <<api, loop, faults, enqueued, lockTrue, lockFalse, incs, delivered, leaked, client>>

\* decrement_active_jobs returned an error, which is logged; the task ends.
DecrementError(s) ==
    /\ task[s].pc = "decr"
    /\ trace' = [trace EXCEPT ![task[s].id] = Append(@, "decr_err")]
    /\ SetTask(s, IdleTask)
    /\ permits' = [permits EXCEPT ![s[1]] = @ + 1]
    /\ Fault
    /\ UNCHANGED <<kv, api, loop, enqueued, lockTrue, lockFalse, incs, delivered, leaked, client>>

\* ------------------------------------------ the CrawlManager and its callers

\* get_status: get_config; Ok(None) when there is none.
GetStatusConfig(c) ==
    /\ client.pc = "idle"
    /\ client' = IF config[c] = NoConfig
                 THEN [IdleClient EXCEPT !.pc = "done", !.op = "get_status", !.crawl = c,
                                         !.result = StatusNone]
                 ELSE [IdleClient EXCEPT !.pc = "gs_count", !.op = "get_status", !.crawl = c]
    /\ UNCHANGED <<kv, procs, hist>>

\* get_status: total = get_count.
GetStatusCount ==
    /\ client.pc = "gs_count"
    /\ client' = IF IsU32(get_count(client.crawl))
                 THEN [client EXCEPT !.pc = "gs_active", !.total = get_count(client.crawl)]
                 ELSE [client EXCEPT !.pc = "done", !.result = CallError]
    /\ UNCHANGED <<kv, procs, hist>>

\* get_status: active = get_active_count.
GetStatusActive ==
    /\ client.pc = "gs_active"
    /\ client' = IF IsU32(active[client.crawl])
                 THEN [client EXCEPT !.pc = "gs_llen", !.active = active[client.crawl]]
                 ELSE [client EXCEPT !.pc = "done", !.result = CallError]
    /\ UNCHANGED <<kv, procs, hist>>

\* get_status: completed = LLEN of the results list; the status is derived.
GetStatusLlen ==
    /\ client.pc = "gs_llen"
    /\ client' = [client EXCEPT !.pc = "done",
                       !.result = CrawlStatus(client.total, client.active,
                                              Len(results[client.crawl]))]
    /\ UNCHANGED <<kv, procs, hist>>

\* A job cycle reaches its decrement_active_jobs: the DECR is executed and its
\* reply converted; the caller keeps the value the counter had.
DecrementCall(c) ==
    /\ client.pc = "idle"
    /\ active[c] > -MaxStored
    /\ decrement_active_jobs(c)
    /\ client' = [IdleClient EXCEPT !.pc = "done", !.op = "decrement", !.crawl = c,
                       !.active = active[c],
                       !.result = IF IsU32(active[c] - 1)
                                  THEN [NoResult EXCEPT !.kind = "ok", !.active = active[c] - 1]
                                  ELSE CallError]
    /\ UNCHANGED <<pending, processing, jobs, nextId, config, visited, count, results, robots>>
    /\ UNCHANGED <<procs, hist>>

\* The call has returned to its caller.
ClientReturn ==
    /\ client.pc = "done"
    /\ client' = IdleClient
    /\ UNCHANGED <<kv, procs, hist>>

\* Another caller writes to the store while the call is under way.
Touched == IF client.pc = "idle" THEN client ELSE [client EXCEPT !.clean = FALSE]

\* save_config by a Kickoff handler.
MgrSaveConfig(c) ==
    /\ config[c] = NoConfig
    /\ config' = [config EXCEPT ![c] = CrawlConfig(KickoffJobData(Seed, c, RequestLimit, Unset, {}, {}, {}))]
    /\ client' = Touched
    /\ UNCHANGED <<pending, processing, jobs, nextId, visited, count, active, results, robots>>
    /\ UNCHANGED <<procs, hist>>

\* increment_active_jobs by a pusher.
MgrIncrementActive(c) ==
    /\ active[c] < MaxStored
    /\ incs[c] < MaxStored
    /\ increment_active_jobs(c)
    /\ client' = Touched
    /\ UNCHANGED <<pending, processing, jobs, nextId, config, visited, count, results, robots>>
    /\ UNCHANGED <<procs, faults, enqueued, lockTrue, lockFalse, trace, delivered, leaked>>

\* increment_count by a link loop.
MgrIncrementCount(c) ==
    /\ count[c] < MaxStored
    /\ increment_count(c)
    /\ client' = Touched
    /\ UNCHANGED <<pending, processing, jobs, nextId, config, visited, active, results, robots>>
    /\ UNCHANGED <<procs, hist>>

\* add_result by a Scrape handler.
MgrAddResult(c) ==
    /\ Len(results[c]) < MaxStored
    /\ add_result(c, Seed)
    /\ client' = Touched
    /\ UNCHANGED <<pending, processing, jobs, nextId, config, visited, count, active, robots>>
    /\ UNCHANGED <<procs, hist>>

\* lock_url by a link loop, on a URL that occurs in every crawl.
MgrLockUrl(c) ==
    /\ LockUrl(c, PageA)
    /\ client' = Touched
    /\ UNCHANGED <<pending, processing, jobs, nextId, config, count, active, results, robots>>
    /\ UNCHANGED <<procs, faults, enqueued, incs, trace, delivered, leaked>>

\* ------------------------------------------- other callers of the queue

\* The jobs a producer pushes for a crawl that was never kicked off (or whose
\* keys are gone): no config is stored for their crawl id.
OrphanPayloads ==
    {ScrapeJobData(PageA, "c1", FALSE, {}), KickoffSitemapJobData(RootSitemap, "c1")}

\* queue.push by the producer, first write.
ProducerSet(payload) ==
    /\ client.pc = "idle"
    /\ nextId <= MaxPushed
    /\ QueueSetRecord(payload)
    /\ client' = [IdleClient EXCEPT !.pc = "p_rpush", !.op = "push",
                                    !.push = payload, !.newid = nextId]
    /\ UNCHANGED <<pending, processing, config, visited, count, active, results, robots>>
    /\ UNCHANGED <<procs, hist>>

\* queue.push by the producer, second write.
ProducerRpush ==
    /\ client.pc = "p_rpush"
    /\ QueueRpush(client.newid, client.push)
    /\ client' = [client EXCEPT !.pc = "done"]
    /\ UNCHANGED <<processing, jobs, nextId, config, visited, count, active, results, robots>>
    /\ UNCHANGED <<procs, faults, lockTrue, lockFalse, incs, trace, delivered, leaked>>

\* queue.ack by a caller other than the job's cycle: of an id that is in the
\* processing list, that has left it, or that was never handed out.
CallerAck(i) ==
    /\ client.pc = "idle"
    /\ i <= nextId
    /\ ack(i)
    /\ client' = [IdleClient EXCEPT !.pc = "done", !.op = "ack", !.newid = i]
    /\ UNCHANGED <<pending, jobs, nextId, config, visited, count, active, results, robots>>
    /\ UNCHANGED <<procs, hist>>

\* ---------------------------------------------------------- specification

ApiNext == \E c \in Crawls :
    \/ ApiIncrement(c)
    \/ ApiPushSet(c)
    \/ ApiPushRpush(c)

LoopNextStep(w) ==
    \/ PopMove(w)
    \/ PopEmpty(w)
    \/ PopLoad(w)

HandlerStep(s) ==
    \/ KickoffSaveConfig(s)
    \/ KickoffLockSeed(s)
    \/ KickoffSpawnRobots(s)
    \/ SitemapGetConfig(s)
    \/ SitemapFetch(s)
    \/ LinkLock(s)
    \/ LinkGetCount(s)
    \/ LinkIncrementCount(s)
    \/ PushJobIncrement(s)
    \/ PushJobSet(s)
    \/ PushJobRpush(s)
    \/ ScrapeFetch(s)
    \/ ScrapeAddResult(s)
    \/ ScrapeDiscover(s)

CycleStep(s) ==
    \/ UpdateStatus(s)
    \/ Ack(s)
    \/ Decrement(s)

TaskStep(s) == HandlerStep(s) \/ CycleStep(s)

RobotsNext == \E c \in Crawls : RobotsStored(c)

\* The steps in which nothing fails, for a site without a robots.txt (the
\* detached fetch of process_kickoff then stores nothing).
NextOk ==
    \/ ApiNext
    \/ \E w \in Workers : LoopNextStep(w)
    \/ \E s \in Slots : TaskStep(s)

\* The steps in which a call fails or a record is lost, and what pop does
\* with an id whose record is lost.
NextFault ==
    \/ \E c \in Crawls : ApiError(c)
    \/ \E w \in Workers : PopMissing(w) \/ PopError(w) \/ PopLoadError(w) \/ Crash(w)
    \/ \E s \in Slots : HandlerError(s) \/ UpdateStatusError(s) \/ AckError(s) \/ DecrementError(s)
    \/ \E i \in JobIds : LoseRecord(i)

Next == NextOk \/ NextFault

Spec == Init /\ [][Next]_vars

\* No call fails and no record is lost; every worker loop, every spawned task
\* and the API request keep being scheduled.
LiveSpec ==
    /\ Init
    /\ [][NextOk]_vars
    /\ WF_vars(ApiNext)
    /\ \A w \in Workers : WF_vars(LoopNextStep(w))
    /\ \A s \in Slots : WF_vars(TaskStep(s))

\* The limits and depths a crawl request may carry.
RequestLimits == {Unset, RequestLimit, RequestLimit + 1}
RequestDepths == {Unset, RequestDepth}

\* The format lists a crawl request may carry: the default empty list, or
\* one format.
RequestFormats == {{}, {"markdown"}, {"html"}, {"rawHtml"}}

\* The state in which the one request r, for crawl c2, has been received.
OneRequest(r) == InitWith([c \in Crawls |-> IF c = "c2" THEN r ELSE NoRequest])

\* One crawl request: for the site without a sitemap (with any limit and
\* depth), for the site whose sitemap is an index, for the site with a
\* robots.txt (with any format list, excluding one of the linked pages and
\* including only the other), for the site crawled from below its root, or
\* for the site whose sitemap index lists itself.
SiteInit ==
    \/ \E l \in RequestLimits, d \in RequestDepths :
           OneRequest(ApiRequest(BareSeed, l, d, {}, {}, {}))
    \/ OneRequest(ApiRequest(IndexSeed, RequestLimit, Unset, {}, {}, {}))
    \/ \E f \in RequestFormats :
           OneRequest(ApiRequest(GuardedSeed, RequestLimit, Unset, f,
                                 {GuardedPrivate}, {GuardedOpen}))
    \/ \E u \in {DocsDir, DocsFile} :
           OneRequest(ApiRequest(u, RequestLimit, Unset, {}, {}, {}))
    \/ OneRequest(ApiRequest(LoopSeed, RequestLimit, Unset, {}, {}, {}))

\* The steps in which nothing fails, with the detached robots.txt fetch of a
\* site that has a robots.txt.
SiteNext == NextOk \/ RobotsNext

\* The crawls of the other sites, no call failing and every process, the
\* detached robots.txt fetch included, kept scheduled.
SiteSpec ==
    /\ SiteInit
    /\ [][SiteNext]_vars
    /\ WF_vars(ApiNext)
    /\ WF_vars(RobotsNext)
    /\ \A w \in Workers : WF_vars(LoopNextStep(w))
    /\ \A s \in Slots : WF_vars(TaskStep(s))

\* The queue with a producer of jobs whose crawl has no config, the workers,
\* and a caller that acks ids apart from the job cycles.
QueueNext ==
    \/ \E p \in OrphanPayloads : ProducerSet(p)
    \/ ProducerRpush
    \/ ClientReturn
    \/ \E i \in JobIds : CallerAck(i)
    \/ \E w \in Workers : LoopNextStep(w)
    \/ \E s \in Slots :
          \/ SitemapGetConfig(s)
          \/ ScrapeFetch(s)
          \/ ScrapeAddResult(s)
          \/ ScrapeDiscover(s)
          \/ CycleStep(s)

QueueSpec == Init /\ [][QueueNext]_vars

\* The crawl the callers of ManagerSpec work on.
Polled == {"c1"}

\* The CrawlManager under any order of calls: a status poll and a decrement
\* on one side, the writes of other callers on the other.
ManagerNext ==
    \/ \E c \in Polled : GetStatusConfig(c)
    \/ GetStatusCount
    \/ GetStatusActive
    \/ GetStatusLlen
    \/ \E c \in Polled : DecrementCall(c)
    \/ ClientReturn
    \/ \E c \in Polled : MgrSaveConfig(c)
    \/ \E c \in Polled : MgrIncrementActive(c)
    \/ \E c \in Polled : MgrIncrementCount(c)
    \/ \E c \in Polled : MgrAddResult(c)

ManagerSpec == Init /\ [][ManagerNext]_vars

\* The counters, the visited set and the results of two crawls under any
\* order of CrawlManager calls.
TwoCrawlNext ==
    \/ \E c \in Crawls : MgrLockUrl(c)
    \/ \E c \in Crawls : MgrIncrementCount(c)
    \/ \E c \in Crawls : MgrIncrementActive(c)
    \/ \E c \in Crawls : DecrementCall(c)
    \/ ClientReturn
    \/ \E c \in Crawls : MgrAddResult(c)

TwoCrawlSpec == Init /\ [][TwoCrawlNext]_vars

\* ------------------------------------------- the Markdown table renderer

\* The largest table the renderer is given: rows, and cells of a row.
MaxRows == 3
MaxCells == 2

\* The text a cell is flattened to (its blocks rendered, trimmed, newlines
\* replaced by spaces).
CellTexts == {"a", ""}

TableRowKinds == {"Header", "Body", "Footer"}

\* TableRow { cells, kind }.
TableRows ==
    [kind : TableRowKinds, cells : UNION {[1..n -> CellTexts] : n \in 0..MaxCells}]

\* Table { rows }.
Tables == UNION {[1..n -> TableRows] : n \in 0..MaxRows}

\* n pushes of x.
Repeat(x, n) == [i \in 1..n |-> x]

\* The pushes of the cells of a row: " ", the text, " |".
RECURSIVE RenderCells(_)
RenderCells(cells) ==
    IF cells = <<>> THEN <<>>
    ELSE <<" ", Head(cells), " |">> \o RenderCells(Tail(cells))

\* render_table_row: what it pushes to out, push by push.
render_table_row(row, max_cols) ==
    <<"|">> \o RenderCells(row.cells)
           \o Repeat(" |", IF Len(row.cells) < max_cols THEN max_cols - Len(row.cells) ELSE 0)
           \o <<"\n">>

\* The pushes of the rows of a sequence, row after row.
RECURSIVE RenderRows(_, _)
RenderRows(rows, max_cols) ==
    IF rows = <<>> THEN <<>>
    ELSE render_table_row(Head(rows), max_cols) \o RenderRows(Tail(rows), max_cols)

\* max_cols of render_table.
MaxCols(t) ==
    LET lens == {Len(t[i].cells) : i \in 1..Len(t)}
    IN  IF lens = {} THEN 0 ELSE CHOOSE n \in lens : \A m \in lens : m <= n

RowsOfKind(t, k) == SelectSeq(t, LAMBDA r : r.kind = k)

\* render_table: what it pushes to out, push by push.
render_table(t) ==
    LET max_cols == MaxCols(t)
        headers == RowsOfKind(t, "Header")
        body_rows == RowsOfKind(t, "Body")
        footer_rows == RowsOfKind(t, "Footer")
        used_first_row_as_header == headers = <<>> /\ body_rows # <<>>
        header == IF headers # <<>> THEN render_table_row(headers[1], max_cols)
                  ELSE IF body_rows # <<>> THEN render_table_row(body_rows[1], max_cols)
                  ELSE <<"|">> \o Repeat(" |", max_cols) \o <<"\n">>
        separator == <<"|">> \o Repeat(" --- |", max_cols) \o <<"\n">>
    IN  IF max_cols = 0 THEN <<>>
        ELSE header \o separator
               \o RenderRows(IF used_first_row_as_header THEN Tail(body_rows) ELSE body_rows,
                             max_cols)
               \o RenderRows(footer_rows, max_cols)

\* A convert call reaches render_table with the table and an empty buffer.
RenderTable ==
    /\ client.pc = "idle"
    /\ client.op = "render"
    /\ client' = [client EXCEPT !.pc = "done", !.out = render_table(client.table)]
    /\ UNCHANGED <<kv, procs, hist>>

\* The renderer given any table, nothing else running.
RenderInit ==
    \E t \in Tables :
        InitState([c \in Crawls |-> NoRequest], [IdleClient EXCEPT !.op = "render", !.table = t])

RenderNext == RenderTable

RenderSpec == RenderInit /\ [][RenderNext]_vars

\* ------------------------------------------------------------- properties

EnqueuedIds == {e[1] : e \in enqueued}

\* The jobs of a crawl that were ever appended to the pending list.
JobsOf(c) == {e \in enqueued : e[2].crawl_id = c}

ScrapeJobs(c) == {e \in JobsOf(c) : e[2].type = "scrape"}

LinkLoopPcs == {"l_lock", "l_get", "l_inc", "pj_inc", "pj_set", "pj_rpush"}

\* The job's cycle has executed its last step, the decrement.
Terminal(i) == Len(trace[i]) = 3

\* Nothing is queued, in flight or being pushed.
Drained ==
    /\ pending = <<>>
    /\ processing = <<>>
    /\ \A s \in Slots : task[s].pc = "idle"
    /\ \A w \in Workers : loop[w].pc # "load"
    /\ \A c \in Crawls : api[c].pc \in {"none", "done", "failed"}

\* C1: for every crawl and URL at most one Scrape job is ever appended to the
\* pending list, and of all the lock_url calls for that crawl and URL exactly
\* one returned true.
C1_NoDuplicateScrape ==
    /\ \A e1, e2 \in enqueued :
          ( /\ e1[2].type = "scrape" /\ e2[2].type = "scrape"
            /\ e1[2].crawl_id = e2[2].crawl_id
            /\ e1[2].url = e2[2].url ) => e1 = e2
    /\ \A c \in Crawls : \A u \in URLs :
          /\ lockTrue[c][u] <= 1
          /\ (lockTrue[c][u] = 1) <=> (u \in visited[c])
          /\ (<<c, u>> \in lockFalse) => (lockTrue[c][u] = 1)

\* Two handlers of one crawl are in their link loops at once, a lock_url call
\* has returned false and the Scrape job of that URL is in the queue's history.
C1_Witness ==
    \E s1, s2 \in Slots : \E c \in Crawls : \E u \in URLs :
        /\ s1 # s2
        /\ task[s1].pc \in LinkLoopPcs /\ task[s2].pc \in LinkLoopPcs
        /\ task[s1].job.crawl_id = c /\ task[s2].job.crawl_id = c
        /\ <<c, u>> \in lockFalse
        /\ \E e \in ScrapeJobs(c) : e[2].url = u

\* C2: the Scrape jobs ever pushed for a crawl, the seed included, never
\* outnumber the crawl's limit.
C2_ScrapeJobsWithinLimit ==
    \A c \in Crawls :
        config[c] # NoConfig => Cardinality(ScrapeJobs(c)) <= config[c].limit

\* C3: the count counter of a crawl never exceeds the crawl's limit.
C3_CountWithinLimit ==
    \A c \in Crawls : config[c] # NoConfig => count[c] <= config[c].limit

\* C4: while a job of a crawl that was pushed has not ended its cycle, the
\* crawl's active counter is above zero.
C4_NoPrematureCompletion ==
    \A c \in Crawls :
        (\E e \in JobsOf(c) : ~Terminal(e[1])) => active[c] > 0

\* The Kickoff job has ended its cycle (its decrement is done) while a child
\* it pushed is still waiting in the pending list.
C4_Witness ==
    \E c \in Crawls : \E e \in JobsOf(c) :
        /\ e[2].type = "kickoff"
        /\ trace[e[1]] = <<"completed", "ack", "decr">>
        /\ pending # <<>>
        /\ active[c] > 0

\* The pushers of a crawl-bound job that are between the increment and the
\* end of queue.push.
Pushing(c) ==
    Cardinality({s \in Slots : task[s].pc \in {"pj_set", "pj_rpush"} /\ task[s].push.crawl_id = c})
    + (IF api[c].pc \in {"set", "rpush"} THEN 1 ELSE 0)

\* C5: every crawl-bound job appended to the pending list, and every push of
\* one that is under way, has its increment_active_jobs behind it.
C5_IncrementBeforePush ==
    \A c \in Crawls : Cardinality(JobsOf(c)) + Pushing(c) <= incs[c]

\* Jobs pushed by the API and by push_job are in the queue's history and a
\* further push_job is between its increment and its push.
C5_Witness ==
    \E c \in Crawls :
        /\ \E e \in JobsOf(c) : e[2].type = "kickoff"
        /\ \E e \in JobsOf(c) : e[2].type = "scrape"
        /\ \E s \in Slots : task[s].pc = "pj_set" /\ task[s].push.crawl_id = c

IsPrefix(a, b) == Len(a) <= Len(b) /\ a = SubSeq(b, 1, Len(a))

\* The job cycle: the status update, then the ack, then the decrement, each
\* attempted once, whatever the handler returned and whether or not the
\* attempt failed.
CycleTraces ==
    {<<a, b, d>> : a \in {"completed", "failed", "status_err"},
                   b \in {"ack", "ack_err"},
                   d \in {"decr", "decr_err"}}

Held(i) == \E s \in Slots : task[s].id = i

\* C6: the cycle of every delivered crawl-bound job executes the decrement
\* exactly once, as its last step, after the update_status and ack attempts.
C6_DecrementExactlyOnce ==
    \A e \in enqueued :
        (delivered[e[1]] # <<>> /\ e[2].crawl_id # NoCrawl) =>
            /\ \E l \in CycleTraces : IsPrefix(trace[e[1]], l)
            /\ ~Held(e[1]) => trace[e[1]] \in CycleTraces

\* A cycle whose ack failed has ended, and its decrement was executed.
C6_Witness ==
    \E e \in enqueued :
        /\ ~Held(e[1])
        /\ trace[e[1]] = <<"completed", "ack_err", "decr">>

AllCompleted ==
    /\ pending = <<>>
    /\ processing = <<>>
    /\ \A c \in Crawls : ScrapeJobs(c) # {} => active[c] = 0

C8_DrainedResultsCountLimit ==
    \A c \in Crawls :
        (Drained /\ config[c] # NoConfig) =>
            /\ Len(results[c]) <= count[c]
            /\ count[c] <= config[c].limit

\* No id is in both lists or twice in one, and an id that pop has moved and
\* the worker has not yet acknowledged is in the processing list.
InOneList ==
    /\ ToSet(pending) \cap ToSet(processing) = {}
    /\ Cardinality(ToSet(pending)) = Len(pending)
    /\ Cardinality(ToSet(processing)) = Len(processing)
    /\ \A w \in Workers : loop[w].pc = "load" =>
          loop[w].id \in ToSet(processing)
    /\ \A s \in Slots : task[s].pc \in HandlerPcs \cup {"k_robots", "status", "ack"} =>
          task[s].id \in ToSet(processing)

\* A step that takes ids from the pending list takes one and puts it on the
\* processing list.
PopMovesOne ==
    ToSet(pending') # ToSet(pending) /\ Len(pending') <= Len(pending) =>
        \E i \in ToSet(pending) :
            /\ ToSet(pending') = ToSet(pending) \ {i}
            /\ ToSet(processing') = ToSet(processing) \cup {i}

AckStepOn(i) == \E s \in Slots : task[s].pc = "ack" /\ task[s].id = i

CleanupStepOn(i) ==
    \E w \in Workers : loop[w].pc = "load" /\ loop[w].id = i /\ jobs[i] = NoJob

Leaves(i) == i \in ToSet(processing) /\ i \notin ToSet(processing')

\* C9 as stated: the move is atomic and only ack removes from the processing
\* list.
C9_OnlyAckRemoves ==
    /\ []InOneList
    /\ [][PopMovesOne]_vars
    /\ [][\A i \in JobIds : Leaves(i) => AckStepOn(i)]_vars

\* C9 amended: the move is atomic, and an id leaves the processing list
\* through ack or through the clean-up pop does for an id without a record.
C9_AckOrCleanupRemoves ==
    /\ []InOneList
    /\ [][PopMovesOne]_vars
    /\ [][\A i \in JobIds : Leaves(i) => (AckStepOn(i) \/ CleanupStepOn(i))]_vars

\* Both workers hold an id that pop has just moved, and a job cycle has
\* already acknowledged its id.
C9_Witness ==
    /\ \A w \in Workers : loop[w].pc = "load"
    /\ \E i \in JobIds : Len(trace[i]) >= 2 /\ trace[i][2] = "ack"

PushedBefore(a, b) == \E e \in enqueued : e[1] = a /\ e[3] <= b

\* The id BRPOPLPUSH hands to worker w in this step, 0 when it hands none.
Popped(w) == IF loop[w].pc = "pop" /\ loop'[w].pc = "load" THEN loop'[w].id ELSE 0

\* C11: the queue is FIFO: pop does not return b while an id a whose push
\* completed before the push of b started is still in the pending list.
C11_Fifo ==
    [][\A w \in Workers : Popped(w) # 0 =>
          \A a \in ToSet(pending) : ~PushedBefore(a, Popped(w))]_vars

\* Where a job cycle is before its ack has been executed.
PreAckPcs == HandlerPcs \cup {"k_robots", "status", "ack"}

\* C12: the job a worker held when it crashed between pop and ack stays in
\* the processing list, and its crawl keeps active > 0.
C12_CrashedJobStays ==
    \A s \in Slots :
        (task[s].pc = "crashed" /\ task[s].at \in PreAckPcs) =>
            /\ task[s].id \in ToSet(processing)
            /\ task[s].id \notin ToSet(pending)
            /\ Crawl(s) # NoCrawl => active[Crawl(s)] > 0

\* A worker crashed inside a handler; the other worker has since worked off
\* everything else, and the crashed job is all that is left.
C12_Witness ==
    \E s \in Slots :
        /\ task[s].pc = "crashed" /\ task[s].at \in HandlerPcs
        /\ pending = <<>>
        /\ processing = <<task[s].id>>
        /\ \A t \in Slots \ {s} : task[t].pc = "idle"
        /\ \E i \in JobIds : i # task[s].id /\ Terminal(i)
        /\ active[Crawl(s)] > 0

\* The jobs of a crawl that are queued or in flight: pushed, and their cycle
\* has not executed its decrement.
Outstanding(c) == Cardinality({e \in JobsOf(c) : ~Terminal(e[1])})

\* C13: when the only failures so far are pushes that failed or crashed after
\* their increment_active_jobs, active is the number of queued or in-flight
\* jobs (pushes under way included) plus one per such failure; it is never
\* below the number of queued or in-flight jobs; and the ids of the lists are
\* ids whose push completed.
C13_PushFailureOverCounts ==
    /\ \A c \in Crawls :
          /\ leaked[c] = faults => active[c] = Outstanding(c) + Pushing(c) + leaked[c]
          /\ active[c] >= Outstanding(c)
    /\ ToSet(pending) \cup ToSet(processing) \subseteq EnqueuedIds
    /\ Len(pending) + Len(processing) <= Cardinality(EnqueuedIds)

\* A queue.push of push_job failed after the increment; the queue has since
\* drained and the crawl is left with active = 1.
C13_Witness ==
    \E c \in Crawls :
        /\ Drained
        /\ leaked[c] = 1 /\ faults = 1
        /\ api[c].pc = "done"
        /\ active[c] = 1
        /\ ScrapeJobs(c) # {}

\* C14: a get_status call returns None iff the crawl has no config;
\* otherwise its status is "completed" iff active is 0 and "scraping" if not,
\* total is the count and completed is the length of the results list (of the
\* values the call read, and of the store when nobody wrote meanwhile and the
\* stored active counter is a count).
C14_GetStatusDerivation ==
    (client.pc = "done" /\ client.op = "get_status") =>
        LET c == client.crawl
            r == client.result
        IN  /\ r.kind \in {"none", "status", "error"}
            /\ r.kind = "status" =>
                  /\ r.status \in {"completed", "scraping"}
                  /\ r.status = "completed" <=> r.active = 0
                  /\ r.total = client.total /\ r.active = client.active
            /\ client.clean =>
                  /\ r.kind = "none" <=> config[c] = NoConfig
                  /\ (config[c] # NoConfig /\ IsU32(active[c])) =>
                        /\ r.kind = "status"
                        /\ r.status = "completed" <=> active[c] = 0
                        /\ r.status = "scraping" <=> active[c] # 0
                        /\ r.total = count[c]
                        /\ r.completed = Len(results[c])

\* A poll of a crawl with two counted URLs and one result, nothing active,
\* answered "completed" with total 2 and completed 1.
C14_Witness ==
    /\ client.pc = "done" /\ client.op = "get_status" /\ client.clean
    /\ client.result.kind = "status"
    /\ client.result.status = "completed"
    /\ client.result.total = 2
    /\ client.result.completed = 1

\* C15: the active counter of every crawl is >= 0 in every state the workers
\* and the API reach, and get_status of a crawl whose config exists answers
\* with a status, never with an error.
C15_ActiveNeverNegative ==
    \A c \in Crawls :
        /\ active[c] >= 0
        /\ config[c] # NoConfig => get_status(c).kind = "status"

\* The crawl has drained: the last decrement took active to 0 and get_status
\* answers "completed".
C15_Witness ==
    \E c \in Crawls :
        /\ Drained
        /\ active[c] = 0
        /\ get_status(c).kind = "status"
        /\ get_status(c).status = "completed"
        /\ get_status(c).completed >= 2

\* C16: a decrement_active_jobs executed on a crawl whose active counter is
\* 0 returns to its caller (with a value or with an error that is logged) and
\* leaves the stored counter at 0.
C16_DecrementClampsAtZero ==
    (client.pc = "done" /\ client.op = "decrement" /\ client.active = 0 /\ client.clean) =>
        /\ client.result.kind \in {"ok", "error"}
        /\ active[client.crawl] = 0

\* The permits of a worker that are taken: one per job cycle that has not
\* ended and one for a pop that has moved an id and not yet returned.
InFlight(w) ==
    Cardinality({s \in Slots : s[1] = w /\ task[s].pc # "idle"})
    + (IF loop[w].id # 0 THEN 1 ELSE 0)

\* A job cycle of worker w ends in this step.
CycleEnds(w) ==
    \E s \in Slots : s[1] = w /\ task[s].pc \in {"ack", "decr"} /\ task'[s].pc = "idle"

CycleEnded(i) == delivered[i] # <<>> /\ ~Held(i)

\* C18 as stated: the record of a job is Completed or Failed, as its handler
\* returned, when its ack is issued; every cycle that ended has acknowledged
\* its job, and the id is out of the processing list.
C18_AckedAfterStatus ==
    /\ \A s \in Slots : task[s].pc = "ack" => jobs[task[s].id].status = StatusOf(task[s].res)
    /\ \A i \in JobIds : CycleEnded(i) =>
          /\ trace[i][2] = "ack"
          /\ jobs[i].status \in {"completed", "failed"}
          /\ i \notin ToSet(processing)

\* C18 amended: the ack is issued in every cycle, after the update_status
\* call; the record is Completed or Failed at that moment when update_status
\* succeeded, and the id is out of the processing list when ack succeeded.
C18_AckIssuedAfterStatusAttempt ==
    /\ \A s \in Slots : task[s].pc = "ack" =>
          /\ Len(trace[task[s].id]) = 1
          /\ trace[task[s].id][1] # "status_err" =>
                jobs[task[s].id].status = StatusOf(task[s].res)
    /\ \A i \in JobIds : CycleEnded(i) =>
          /\ Len(trace[i]) >= 2
          /\ trace[i][1] \in {"completed", "failed", "status_err"}
          /\ trace[i][2] \in {"ack", "ack_err"}
          /\ trace[i][1] # "status_err" => jobs[i].status = trace[i][1]
          /\ trace[i][2] = "ack" => i \notin ToSet(processing)

\* A job whose handler failed has ended its cycle: its record is Failed and
\* its id is out of the processing list.
C18_Witness ==
    \E i \in JobIds :
        /\ CycleEnded(i)
        /\ trace[i] = <<"failed", "ack", "decr">>
        /\ jobs[i].status = "failed"
        /\ i \notin ToSet(processing)

\* C19: the status of a record changes only from Pending to Active, in pop,
\* and from Active to Completed or Failed, in the update_status of the job
\* cycle that holds the job; push creates the record Pending.
C19_StatusOnlyForward ==
    [][\A i \in JobIds :
          (jobs'[i].status # jobs[i].status /\ jobs'[i] # NoJob) =>
              \/ jobs[i] = NoJob /\ jobs'[i].status = "pending"
              \/ /\ jobs[i].status = "pending" /\ jobs'[i].status = "active"
                 /\ \E w \in Workers : /\ loop[w].pc = "load" /\ loop[w].id = i
                                        /\ loop'[w].pc = "pop"
              \/ /\ jobs[i].status = "active" /\ jobs'[i].status \in {"completed", "failed"}
                 /\ \E s \in Slots : task[s].id = i /\ task[s].pc = "status"]_vars

\* Records in all four statuses exist at once.
C19_Witness ==
    \E i, j, k, l \in JobIds :
        /\ jobs[i].status = "pending"
        /\ jobs[j].status = "active"
        /\ jobs[k].status = "completed"
        /\ jobs[l].status = "failed"

\* The limit the crawl request of crawl c asked for.
RequestedLimit(c) == (CHOOSE e \in JobsOf(c) : e[2].type = "kickoff")[2].limit

\* C20: a crawl of a seed whose page links to more internal pages than the
\* requested limit leaves room for: once nothing has failed and the queue has
\* drained, count and the number of results both equal the requested limit
\* and get_status reports "completed".
C20_ScenarioLimitReached ==
    \A c \in Crawls :
        (Drained /\ faults = 0 /\ api[c].pc = "done") =>
            /\ count[c] = RequestedLimit(c)
            /\ Len(results[c]) = RequestedLimit(c)
            /\ get_status(c).status = "completed"

\* The Kickoff payload of crawl c.
KickoffPayload(c) == (CHOOSE e \in JobsOf(c) : e[2].type = "kickoff")[2]

\* C21: the config process_kickoff saved has the limit of the Kickoff payload
\* when the payload sets one and the default otherwise, and likewise the
\* max_depth.
C21_ConfigFollowsPayload ==
    \A c \in Crawls :
        config[c] # NoConfig =>
            /\ config[c].limit =
                   IF KickoffPayload(c).limit = Unset THEN DefaultLimit
                   ELSE KickoffPayload(c).limit
            /\ config[c].max_depth =
                   IF KickoffPayload(c).max_depth = Unset THEN DefaultMaxDepth
                   ELSE KickoffPayload(c).max_depth

\* The Scrape jobs of crawl c that the KickoffSitemap jobs of the two urlsets
\* pushed (the seed page of that site has no links).
ChildScrapeJobs(c) == {e \in ScrapeJobs(c) : e[2].url \in {PageX, PageY}}

\* C22: for the crawl of the site whose sitemap index points to two urlsets
\* that together hold more URLs than the crawl's limit, once the queue has
\* drained the two KickoffSitemap jobs have pushed exactly as many Scrape
\* jobs as the limit, however the two jobs interleaved, and get_status
\* reports "completed".
C22_TwoChildrenPushLimit ==
    \A c \in Crawls :
        (Drained /\ api[c].pc = "done" /\ api[c].url = IndexSeed) =>
            /\ Cardinality(ChildScrapeJobs(c)) = RequestedLimit(c)
            /\ get_status(c).status = "completed"

\* The KickoffSitemap jobs whose sitemap cannot be fetched.
UnservedSitemapJobs(c) ==
    {e \in JobsOf(c) : e[2].type = "kickoff_sitemap" /\ e[2].url = BareSitemap}

\* The crawl of the site without a sitemap has ended as the claim says.
SitemapFailureOutcome(c) ==
    /\ results[c] = <<BareSeed>>
    /\ active[c] = 0
    /\ get_status(c).status = "completed"
    /\ get_status(c).completed = 1

\* C23: when the sitemap of a crawl cannot be fetched, the KickoffSitemap job
\* ends Failed, acked and with its active unit decremented, and it is the
\* only job of the crawl that fails; the seed Scrape job runs and appends its
\* result, and the crawl ends up "completed" with the one result of the seed
\* page (which has no links).
C23_SitemapFailureIsLocal ==
    /\ [](\A c \in Crawls : \A e \in JobsOf(c) :
            CycleEnded(e[1]) =>
                IF e \in UnservedSitemapJobs(c)
                THEN /\ trace[e[1]] = <<"failed", "ack", "decr">>
                     /\ jobs[e[1]].status = "failed"
                     /\ e[1] \notin ToSet(processing)
                ELSE /\ trace[e[1]] = <<"completed", "ack", "decr">>
                     /\ jobs[e[1]].status = "completed")
    /\ <>[](\A c \in Crawls : api[c].url = BareSeed => SitemapFailureOutcome(c))

\* The queue has drained after the sitemap job failed and the seed was scraped.
C23_Witness ==
    \E c \in Crawls :
        /\ Drained
        /\ \E e \in UnservedSitemapJobs(c) : trace[e[1]] = <<"failed", "ack", "decr">>
        /\ \E e \in ScrapeJobs(c) : trace[e[1]] = <<"completed", "ack", "decr">>
        /\ SitemapFailureOutcome(c)

\* The keys of crawl c that the claim is about.
CrawlKeys(c) == <<visited[c], count[c], active[c], results[c]>>

ScrapeFailed(s) ==
    /\ task[s].pc \in {"status", "ack", "decr"}
    /\ task[s].job.type = "scrape"
    /\ task[s].job.crawl_id # NoCrawl
    /\ task[s].at = "sc_scrape"

\* C25: when the scrape service returns an error for a crawl-bound Scrape job
\* the handler returns the error with no result appended; the rest of the
\* job's cycle appends no result, locks no URL, raises no count and pushes no
\* job, marks the job Failed, acks it and decrements active once; no other
\* job's record, cycle or task changes in those steps.
C25_ScrapeErrorFailsJobOnly ==
    /\ [](\A s \in Slots : ScrapeFailed(s) =>
             /\ task[s].res = "err"
             /\ task[s].job.url \notin ToSet(results[Crawl(s)])
             /\ task[s].pc \in {"ack", "decr"} =>
                   /\ trace[task[s].id][1] \in {"failed", "status_err"}
                   /\ trace[task[s].id][1] = "failed" => jobs[task[s].id].status = "failed"
             /\ task[s].pc = "decr" =>
                   \/ trace[task[s].id][2] = "ack" /\ task[s].id \notin ToSet(processing)
                   \/ trace[task[s].id][2] = "ack_err")
    /\ [][\A s \in Slots :
             (ScrapeFailed(s) /\ task'[s] # task[s] /\ task'[s].pc # "crashed") =>
                 /\ UNCHANGED <<results, visited, count, pending, nextId, enqueued, lockTrue, lockFalse>>
                 /\ \A t \in Slots \ {s} : task'[t] = task[t]
                 /\ \A i \in JobIds \ {task[s].id} : jobs'[i] = jobs[i] /\ trace'[i] = trace[i]
                 /\ task'[s].pc = "idle" =>
                       /\ task[s].pc = "decr"
                       /\ trace'[task[s].id] \in CycleTraces
                       /\ trace'[task[s].id][3] = "decr" =>
                             active' = [active EXCEPT ![Crawl(s)] = @ - 1]
                 /\ task'[s].pc # "idle" => active' = active]_vars

\* The scrape of the seed page failed: the job is Failed and acked, its
\* decrement is next, and the crawl has no result and no URL but the seed.
C25_Witness ==
    \E s \in Slots :
        /\ ScrapeFailed(s)
        /\ task[s].pc = "decr"
        /\ task[s].job.url = Seed
        /\ trace[task[s].id] = <<"failed", "ack">>
        /\ jobs[task[s].id].status = "failed"
        /\ task[s].id \notin ToSet(processing)
        /\ results[Crawl(s)] = <<>>
        /\ visited[Crawl(s)] = {Seed}

\* C26: a Scrape or KickoffSitemap job whose crawl has no stored config ends
\* Failed; no handler stores a config for the crawl id, so get_status of it
\* returns None before and after.
C26_NoConfigFailsJob ==
    /\ \A c \in Crawls : config[c] = NoConfig /\ get_status(c) = StatusNone
    /\ \A e \in enqueued :
          (e[2].type \in {"scrape", "kickoff_sitemap"} /\ e[2].crawl_id # NoCrawl) =>
              /\ Len(trace[e[1]]) >= 1 => trace[e[1]][1] = "failed"
              /\ CycleEnded(e[1]) => jobs[e[1]].status = "failed"

\* A Scrape job and a KickoffSitemap job of a crawl without config have both
\* ended Failed.
C26_Witness ==
    \E e, f \in enqueued :
        /\ e[2].type = "scrape" /\ f[2].type = "kickoff_sitemap"
        /\ CycleEnded(e[1]) /\ CycleEnded(f[1])
        /\ Len(trace[e[1]]) = 3 /\ Len(trace[f[1]]) = 3
        /\ jobs[e[1]].status = "failed" /\ jobs[f[1]].status = "failed"
        /\ get_status(e[2].crawl_id) = StatusNone

\* This step is an ack of id i that returned Ok: by the cycle of the job or
\* by another caller.
AckReturns(i) ==
    \/ client.pc = "idle" /\ client'.op = "ack" /\ client'.newid = i
    \/ \E s \in Slots : /\ task[s].pc = "ack" /\ task[s].id = i
                        /\ trace'[i] = Append(trace[i], "ack")

\* C29: ack is idempotent: after ack(id) the id is not in the processing
\* list, an ack of an id that is not in the processing list changes nothing
\* (so a second ack leaves what the first left), every other id keeps its
\* place, and no ack changes the pending list or a job record.
C29_AckIdempotent ==
    [][\A i \in JobIds : AckReturns(i) =>
          /\ i \notin ToSet(processing')
          /\ i \notin ToSet(processing) => processing' = processing
          /\ processing' = SelectSeq(processing, LAMBDA j : j # i)
          /\ pending' = pending
          /\ jobs' = jobs]_vars

\* A caller has acked an id that the cycle of the job had acked before, and
\* another id is still in the processing list.
C29_Witness ==
    /\ client.op = "ack"
    /\ client.pc = "done"
    /\ Len(trace[client.newid]) >= 2
    /\ trace[client.newid][2] = "ack"
    /\ processing # <<>>
    /\ pending # <<>>

\* Every fault so far was a push that failed, or a crash inside a push,
\* after the increment_active_jobs that precedes it.
PushFailuresOnly ==
    \E c \in Crawls : leaked[c] = faults /\ \A d \in Crawls \ {c} : leaked[d] = 0

\* The payload id i was appended to the pending list with.
EnqueuedPayload(i) == (CHOOSE e \in enqueued : e[1] = i)[2]

\* C27: push writes the record before it appends the id: when nothing has
\* failed but pushes (between the two writes or before them) every id in the
\* pending list has the record push wrote for it, and pop has returned a job
\* only for ids that push appended, with the payload of their record.
C27_RecordBeforeId ==
    /\ PushFailuresOnly =>
          \A i \in ToSet(pending) :
              /\ i \in EnqueuedIds
              /\ jobs[i] # NoJob
              /\ jobs[i].payload = EnqueuedPayload(i)
    /\ \A i \in JobIds : delivered[i] # <<>> =>
          /\ i \in EnqueuedIds
          /\ jobs[i] # NoJob
          /\ jobs[i].payload = EnqueuedPayload(i)
          /\ \A s \in Slots : task[s].id = i => task[s].job = EnqueuedPayload(i)

\* A push failed between its two writes: its record is stored and its id was
\* never appended, while a later id is queued and delivered.
C27_Witness ==
    \E i \in JobIds :
        /\ i < nextId
        /\ jobs[i] # NoJob
        /\ i \notin EnqueuedIds
        /\ \A s \in Slots : task[s].newid # i
        /\ \A c \in Crawls : api[c].pc # "rpush"
        /\ faults = 1
        /\ PushFailuresOnly
        /\ \E j \in JobIds : j > i /\ delivered[j] # <<>>

\* C28: when pop has moved an id whose record is missing and its GET does
\* not fail, it removes the id from the processing list and returns None: no
\* job is delivered and no task spawned, the id is in neither list, the permit
\* comes back and the worker is at its next pop; an id whose record is missing
\* is never delivered.
C28_MissingRecordCleanup ==
    /\ [][\A w \in Workers :
             (/\ loop[w].pc = "load" /\ jobs[loop[w].id] = NoJob
              /\ loop'[w] # loop[w] /\ faults' = faults) =>
                 /\ loop[w].id \notin ToSet(processing')
                 /\ loop[w].id \notin ToSet(pending')
                 /\ processing' = SelectSeq(processing, LAMBDA j : j # loop[w].id)
                 /\ pending' = pending
                 /\ jobs' = jobs
                 /\ delivered' = delivered
                 /\ task' = task
                 /\ loop'[w] = [pc |-> "pop", id |-> 0]
                 /\ permits'[w] = permits[w] + 1]_vars
    /\ [](\A i \in EnqueuedIds : jobs[i] = NoJob => delivered[i] = <<>> /\ trace[i] = <<>>)

\* pop has cleaned up an id whose record was lost, and the workers went on:
\* a job pushed later was delivered and the queue has drained.
C28_Witness ==
    \E i \in EnqueuedIds :
        /\ jobs[i] = NoJob
        /\ i \notin ToSet(pending) \cup ToSet(processing)
        /\ delivered[i] = <<>>
        /\ Drained
        /\ \E j \in EnqueuedIds : j > i /\ Terminal(j)

\* C30: once the queue has drained, with no failure, the visited set of every
\* crawl holds exactly the URLs of the Scrape jobs pushed for the crawl, one
\* job each.
C30_VisitedEqualsScrapeJobs ==
    \A c \in Crawls :
        (Drained /\ faults = 0) =>
            /\ Cardinality(visited[c]) = Cardinality(ScrapeJobs(c))
            /\ visited[c] = {e[2].url : e \in ScrapeJobs(c)}

\* A Scrape handler's push of a child Scrape job is appended to the pending
\* list in this step (the handler is in link discovery).
DiscoveryEnqueues(s) ==
    /\ task[s].job.type = "scrape"
    /\ task[s].pc = "pj_rpush"
    /\ enqueued' # enqueued
    /\ task'[s] # task[s]

\* C31: link discovery never appends a Scrape job whose URL matches one of
\* the excludes patterns of the crawl's request, and when the request has
\* includes patterns it appends only URLs that match one of them.
C31_DiscoveryHonoursPatterns ==
    [][\A s \in Slots :
          DiscoveryEnqueues(s) =>
              /\ task[s].push.url \notin api[Crawl(s)].excludes
              /\ \/ api[Crawl(s)].includes = {}
                 \/ task[s].push.url \in api[Crawl(s)].includes]_vars

\* C32: link discovery never appends a Scrape job for a URL the site's
\* robots.txt disallows, however the detached robots.txt fetch interleaves
\* with the Scrape jobs of the crawl.
C32_DiscoveryRespectsRobots ==
    [][\A s \in Slots :
          DiscoveryEnqueues(s) => task[s].push.url \notin RobotsDisallowed]_vars

\* The Kickoff handler's push of the KickoffSitemap job is appended to the
\* pending list in this step.
KickoffEnqueuesSitemap(s) ==
    /\ task[s].job.type = "kickoff"
    /\ task[s].pc = "pj_rpush"
    /\ task[s].push.type = "kickoff_sitemap"
    /\ enqueued' # enqueued
    /\ task'[s] # task[s]

\* C33: for every seed, with a root path or not, ending with "/" or not, the
\* KickoffSitemap job process_kickoff pushes targets the seed's scheme and
\* host with the path /sitemap.xml.
C33_SitemapAtSiteRoot ==
    [][\A s \in Slots :
          KickoffEnqueuesSitemap(s) =>
              task[s].push.url = SetPath(task[s].job.url, "/sitemap.xml")]_vars

\* The lines of an output buffer: the pushes before each "\n".
RECURSIVE LinesOf(_, _)
LinesOf(out, line) ==
    IF out = <<>> THEN <<>>
    ELSE IF Head(out) = "\n" THEN <<line>> \o LinesOf(Tail(out), <<>>)
    ELSE LinesOf(Tail(out), Append(line, Head(out)))

\* The texts of the cells of an emitted line, an empty cell giving "".
CellsOfLine(line) ==
    LET ends == SelectSeq([j \in 1..Len(line) |-> j], LAMBDA j : line[j] \in {" |", " --- |"})
    IN  [k \in 1..Len(ends) |->
            IF line[ends[k]] = " --- |" THEN "---"
            ELSE IF ends[k] > 2 /\ line[ends[k] - 2] = " " THEN line[ends[k] - 1]
            ELSE ""]

\* The cells of a row followed by empty cells up to n.
PaddedCells(row, n) == row.cells \o Repeat("", n - Len(row.cells))

\* C34: the renderer emits every row of a table with exactly max_cols cells,
\* max_cols being the largest cell count of a row: short rows are padded with
\* empty cells, the separator has max_cols columns, and without a Header row
\* the first Body row is emitted above the separator and not again below it.
C34_TableRowsPadded ==
    (client.op = "render" /\ client.pc = "done" /\ MaxCols(client.table) > 0) =>
        LET t == client.table
            n == MaxCols(t)
            lines == LinesOf(client.out, <<>>)
            body == RowsOfKind(t, "Body")
            emitted == {CellsOfLine(lines[i]) : i \in (1..Len(lines)) \ {2}}
        IN  /\ \A i \in 1..Len(lines) : Len(CellsOfLine(lines[i])) = n
            /\ Len(lines) >= 2
            /\ CellsOfLine(lines[2]) = Repeat("---", n)
            /\ \A i \in 1..Len(t) : PaddedCells(t[i], n) \in emitted
            /\ Len(lines) <= Len(t) + 2
            /\ (RowsOfKind(t, "Header") = <<>> /\ body # <<>>) =>
                   /\ CellsOfLine(lines[1]) = PaddedCells(body[1], n)
                   /\ Len(lines) = Len(t) + 1

\* The ids of a list whose job belongs to crawl c.
IdsOf(list, c) == SelectSeq(list, LAMBDA i : jobs[i].payload.crawl_id = c)

\* The number of ids of crawl c in the pending and in the processing list.
Queued(c) == Len(IdsOf(pending, c)) + Len(IdsOf(processing, c))

\* C35: with no crash and no failed call, the active counter of every crawl
\* is at least the number of the crawl's ids in the pending list plus those
\* in the processing list, so get_status does not answer "completed" while a
\* job of the crawl is queued or in flight.
C35_ActiveCoversQueued ==
    \A c \in Crawls :
        /\ active[c] >= Queued(c)
        /\ get_status(c).status = "completed" =>
              /\ Queued(c) = 0
              /\ \A s \in Slots : task[s].pc # "idle" => task[s].job.crawl_id # c

\* A job of the crawl is queued and another is in flight, the counter equals
\* the number of the two lists' ids, and get_status answers "scraping".
C35_Witness ==
    \E c \in Crawls :
        /\ IdsOf(pending, c) # <<>>
        /\ IdsOf(processing, c) # <<>>
        /\ active[c] = Queued(c)
        /\ get_status(c).status = "scraping"

\* C36: a crawl-bound Scrape job whose status is Failed has appended no
\* result to the results list of its crawl, also when link discovery or a
\* child push failed after the scrape succeeded.
C36_FailedJobLeavesNoResult ==
    \A c \in Crawls : \A e \in ScrapeJobs(c) :
        jobs[e[1]].status = "failed" => e[2].url \notin ToSet(results[c])

\* C37: whatever formats the scrape options of a crawl request, the link
\* discovery of a Scrape job whose scrape succeeded is given the HTML of the
\* fetched page: the links it goes through are the links of the page that
\* the filter accepts.
C37_DiscoveryGetsHtml ==
    [][\A s \in Slots :
          (task[s].pc = "sc_disc" /\ task'[s] # task[s] /\ config[Crawl(s)] # NoConfig) =>
              /\ DiscoveryHtml(task[s].job.formats)
              /\ task'[s].links =
                     filter_links(PageLinks(task[s].job.url), config[Crawl(s)].base_url,
                                  {}, {}, robots[Crawl(s)] = "set")]_vars

C39_PushedUrlsPassFilter ==
    \A c \in Crawls : \A e \in ScrapeJobs(c) :
        (config[c] # NoConfig /\ ~e[2].is_crawl_source) =>
            FilterAccepts(e[2].url, config[c].base_url, {}, {}, TRUE)

\* No worker has crashed, nothing is queued, no pop is under way, no job
\* cycle is running and the API has served its requests: nothing more will
\* be decremented.
QuietWithoutCrash ==
    /\ \A w \in Workers : loop[w].pc = "pop"
    /\ \A s \in Slots : task[s].pc = "idle"
    /\ pending = <<>>
    /\ \A c \in Crawls : api[c].pc \in {"none", "done", "failed"}

\* C40: with no worker crash, every unit of active incremented for a job
\* whose push succeeded is decremented in the end, also when pop does not
\* deliver the job (its record is missing, or pop returns an error after it
\* moved the id): once nothing is left to run, a crawl none of whose pushes
\* failed has active = 0.
C40_EveryUnitDecremented ==
    \A c \in Crawls :
        (QuietWithoutCrash /\ leaked[c] = 0) => active[c] = 0

====
